---- MODULE Spec2Model ----
(***************************************************************************)
(* A model of qutip/distributions.py: the Distribution grid with its       *)
(* marginal/project reductions and the three builders                      *)
(* (WignerDistribution, QDistribution, TwoModeQuadratureCorrelation).      *)
(*                                                                         *)
(* Representation.                                                         *)
(*  - A numpy array is a record [shape, flat]: flat holds the elements in  *)
(*    row-major (C) order, so rank = Len(shape).  A Distribution's data    *)
(*    carries in addition buf, the identity of its buffer (0: no data).    *)
(*  - Real numbers are exact rationals <<num, den>> in lowest terms with   *)
(*    den > 0; floating-point rounding is not modelled.                    *)
(*  - Complex numbers (the accumulator p and the kernels) are Gaussian     *)
(*    integers <<re, im>>.  The angles theta1, theta2 are counted in       *)
(*    quarter turns (theta = q * pi/2), so exp(-1j*theta*n) is exact.      *)
(*    The positive real factors 1/sqrt(sqrt(pi) 2^n n!) and exp(-x^2/2)    *)
(*    of a kernel have no exact representation and are left out of its     *)
(*    value; the phase, the Hermite polynomial, the mesh coordinates, the  *)
(*    amplitude lookup and the summation are exact.                        *)
(***************************************************************************)
EXTENDS Integers, Sequences, FiniteSets, TLC

VARIABLES grid, res, pc, cur, visited, err, last, cfg

vars == <<grid, res, pc, cur, visited, err, last, cfg>>

(***************************************************************************)
(* Bounds of the model.                                                    *)
(***************************************************************************)
MaxSteps == 2    \* largest `steps` a builder is constructed with
MaxN == 2        \* largest per-mode Fock truncation of a state
MaxRank == 2     \* largest rank of a grid built with Distribution(...)
MaxLen == 2      \* largest axis length of a grid built with Distribution(...)

(***************************************************************************)
(* Exact arithmetic.                                                       *)
(***************************************************************************)
Abs(x) == IF x < 0 THEN -x ELSE x

RECURSIVE gcd(_, _)
gcd(a, b) == IF b = 0 THEN a ELSE gcd(b, a % b)

Rat(n, d) == LET g == gcd(Abs(n), d) IN <<n \div g, d \div g>>

RAdd(a, b) == Rat(a[1] * b[2] + b[1] * a[2], a[2] * b[2])

RDiv(a, k) == Rat(a[1], a[2] * k)

RLess(a, b) == a[1] * b[2] < b[1] * a[2]

CAdd(a, b) == <<a[1] + b[1], a[2] + b[2]>>

CMul(a, b) == <<a[1] * b[1] - a[2] * b[2], a[1] * b[2] + a[2] * b[1]>>

CAbs2(a) == <<a[1] * a[1] + a[2] * a[2], 1>>

RECURSIVE Prod(_)
Prod(s) == IF s = <<>> THEN 1 ELSE s[1] * Prod(Tail(s))

RECURSIVE SumSeq(_)
SumSeq(s) == IF s = <<>> THEN <<0, 1>> ELSE RAdd(s[1], SumSeq(Tail(s)))

RECURSIVE MaxSeq(_)
MaxSeq(s) ==
    IF Len(s) = 1 THEN s[1]
    ELSE LET m == MaxSeq(Tail(s)) IN IF RLess(s[1], m) THEN m ELSE s[1]

RemoveAt(s, k) == SubSeq(s, 1, k - 1) \o SubSeq(s, k + 1, Len(s))

(***************************************************************************)
(* numpy reductions along one axis (ax is 0-based and already normalised). *)
(***************************************************************************)
ndim(a) == Len(a.shape)

\* the elements along axis ax that are reduced into position m of the result
Lane(a, ax, m) ==
    LET len   == a.shape[ax + 1]
        inner == Prod(SubSeq(a.shape, ax + 2, Len(a.shape)))
        o     == (m - 1) \div inner
        r     == (m - 1) % inner
    IN  [t \in 1..len |-> a.flat[(o * len + (t - 1)) * inner + r + 1]]

ReducedSize(a, ax) == Prod(RemoveAt(a.shape, ax + 1))

\* mutant: the sum along the axis, not divided by the sample count
mean_undivided(a, ax) ==
    [shape |-> RemoveAt(a.shape, ax + 1),
     flat  |-> [m \in 1..ReducedSize(a, ax) |-> SumSeq(Lane(a, ax, m))]]

mean(a, ax) ==
    [shape |-> RemoveAt(a.shape, ax + 1),
     flat  |-> [m \in 1..ReducedSize(a, ax) |->
                   RDiv(SumSeq(Lane(a, ax, m)), a.shape[ax + 1])]]

max(a, ax) ==
    [shape |-> RemoveAt(a.shape, ax + 1),
     flat  |-> [m \in 1..ReducedSize(a, ax) |-> MaxSeq(Lane(a, ax, m))]]

\* Python/numpy index normalisation: -n..-1 count from the end
\* mutant: negative indices rejected
InRangeNonNegative(i, n) == 0 <= i /\ i < n

InRange(i, n) == -n <= i /\ i < n

NormIndex(i, n) == IF i < 0 THEN i + n ELSE i

(***************************************************************************)
(* Distribution objects.                                                   *)
(***************************************************************************)
NoData == [buf |-> 0, shape |-> <<>>, flat |-> <<>>]

WithBuf(a, b) == [buf |-> b, shape |-> a.shape, flat |-> a.flat]

Arr(d) == [shape |-> d.shape, flat |-> d.flat]

\* theta1/theta2 = -1: the object has no such attribute
Distribution(data, xvecs, xlabels) ==
    [kind |-> "Distribution", data |-> data, xvecs |-> xvecs,
     xlabels |-> xlabels, theta1 |-> -1, theta2 |-> -1]

NoObj ==
    [kind |-> "None", data |-> NoData, xvecs |-> <<>>, xlabels |-> <<>>,
     theta1 |-> -1, theta2 |-> -1]

HasData(o) == o.data.buf # 0

\* a buffer identity no live object uses
FreshBuf(live) == CHOOSE b \in 1..(Cardinality(live) + 1) : b \notin live

LiveBufs == {grid.data.buf, res.data.buf}

\* what evaluating data.mean(axis=dim) / data.max(axis=dim), then xvecs[dim]
\* and xlabels[dim], raises
ReduceOutcome(self, dim) ==
    IF ~HasData(self) THEN "AttributeError"
    ELSE IF ~InRange(dim, ndim(self.data)) THEN "AxisError"
    ELSE IF ~InRange(dim, Len(self.xvecs)) THEN "IndexError"
    ELSE IF ~InRange(dim, Len(self.xlabels)) THEN "IndexError"
    ELSE "none"

\* mutant: the entry at dim removed from the axis lists instead of kept
marginal_removing(self, dim, buf) ==
    Distribution(WithBuf(mean(Arr(self.data), NormIndex(dim, ndim(self.data))), buf),
                 RemoveAt(self.xvecs, NormIndex(dim, Len(self.xvecs)) + 1),
                 RemoveAt(self.xlabels, NormIndex(dim, Len(self.xlabels)) + 1))

marginal(self, dim, buf) ==
    Distribution(WithBuf(mean(Arr(self.data), NormIndex(dim, ndim(self.data))), buf),
                 <<self.xvecs[NormIndex(dim, Len(self.xvecs)) + 1]>>,
                 <<self.xlabels[NormIndex(dim, Len(self.xlabels)) + 1]>>)

project(self, dim, buf) ==
    Distribution(WithBuf(max(Arr(self.data), NormIndex(dim, ndim(self.data))), buf),
                 <<self.xvecs[NormIndex(dim, Len(self.xvecs)) + 1]>>,
                 <<self.xlabels[NormIndex(dim, Len(self.xlabels)) + 1]>>)

\* mutant: the reduction done in place on the receiver's own buffer
ReduceInPlace(self, dim) ==
    [self EXCEPT !.data =
        WithBuf(mean(Arr(self.data), NormIndex(dim, ndim(self.data))), self.data.buf)]

\* the grid a reduction is called on, after the call
SelfAfterReduce(self, dim) == self

(***************************************************************************)
(* Quantum states: [dims, amp], dims the two per-mode truncation sizes and *)
(* amp the column of amplitudes.  NoneState is the absent state (None).    *)
(***************************************************************************)
NoneState == [dims |-> <<>>, amp |-> <<>>]

Truthy(rho) == rho # NoneState

Basis(L, k) == [t \in 1..L |-> IF t = k THEN <<1, 0>> ELSE <<0, 0>>]

Ones(L) == [t \in 1..L |-> <<1, 0>>]

Twisted(L) == [t \in 1..L |-> IF t % 2 = 1 THEN <<1, 0>> ELSE <<0, 1>>]

AmpVectors(L) == {Basis(L, k) : k \in 1..L} \cup {Ones(L), Twisted(L)}

\* two-mode states: a few amplitude vectors for every pair of truncations
States ==
    UNION {{[dims |-> <<a, b>>, amp |-> v] :
               v \in IF a = b THEN AmpVectors(a * b) ELSE {Ones(a * b)}} :
               a \in 1..MaxN, b \in 1..MaxN}

\* a state the two-mode builder is specified for: both modes share N
Matched(rho) == Truthy(rho) /\ rho.dims[1] = rho.dims[2]

(***************************************************************************)
(* Builders.                                                               *)
(***************************************************************************)
linspace(a, b, steps) ==
    [t \in 1..steps |->
        IF steps = 1 THEN a ELSE a + ((t - 1) * (b - a)) \div (steps - 1)]

\* extents whose linspace points are integers: unit spacing from a low end
Lows == {<<-1, 0>>}

Extent(lo, steps) ==
    <<<<lo[1], lo[1] + (steps - 1)>>, <<lo[2], lo[2] + (steps - 1)>>>>

Thetas == {<<0, 0>>, <<1, 0>>, <<0, 1>>}

BuilderXvecs(extent, steps) ==
    <<linspace(extent[1][1], extent[1][2], steps),
      linspace(extent[2][1], extent[2][2], steps)>>

\* the builders' __init__ up to the test of rho: self.data is never assigned
WignerDistribution(extent, steps) ==
    [kind |-> "Wigner", data |-> NoData, xvecs |-> BuilderXvecs(extent, steps),
     xlabels |-> <<"Re(alpha)", "Im(alpha)">>, theta1 |-> -1, theta2 |-> -1]

QDistribution(extent, steps) ==
    [kind |-> "Q", data |-> NoData, xvecs |-> BuilderXvecs(extent, steps),
     xlabels |-> <<"Re(alpha)", "Im(alpha)">>, theta1 |-> -1, theta2 |-> -1]

TwoModeQuadratureCorrelation(theta1, theta2, extent, steps) ==
    [kind |-> "TwoMode", data |-> NoData, xvecs |-> BuilderXvecs(extent, steps),
     xlabels |-> <<"X1(theta1)", "X2(theta2)">>, theta1 |-> theta1,
     theta2 |-> theta2]

\* mutant: the constructors call update whatever rho is
AlwaysCallsUpdate(rho) == TRUE

\* `if rho:` in the three constructors
CallsUpdate(rho) == Truthy(rho)

(***************************************************************************)
(* The external transforms wigner(rho, xvec, yvec) and qfunc(...): a 2D    *)
(* real array with one row per yvec entry; the values stand for the        *)
(* transform's output and depend on the state and on both coordinates.     *)
(***************************************************************************)
RECURSIVE Tag(_)
Tag(amp) ==
    IF amp = <<>> THEN 0
    ELSE Len(amp) * (amp[Len(amp)][1] + 2 * amp[Len(amp)][2])
         + Tag(SubSeq(amp, 1, Len(amp) - 1))

transform(kind, rho, xvec, yvec) ==
    [shape |-> <<Len(yvec), Len(xvec)>>,
     flat  |-> [m \in 1..(Len(yvec) * Len(xvec)) |->
                  <<(IF kind = "Q" THEN 1 ELSE 0) + Tag(rho.amp)
                    + 2 * xvec[((m - 1) % Len(xvec)) + 1]
                    + 5 * yvec[((m - 1) \div Len(xvec)) + 1], 1>>]]

(***************************************************************************)
(* TwoModeQuadratureCorrelation.update                                     *)
(***************************************************************************)
\* np.meshgrid(xvecs[0], xvecs[1]): both of shape (len(xvecs[1]), len(xvecs[0]))
\* mutant: the first mesh indexed 'ij' (rows run over xvecs[0])
X1_ij(self) ==
    LET nx == Len(self.xvecs[1])
        ny == Len(self.xvecs[2])
    IN  [shape |-> <<ny, nx>>,
         flat  |-> [m \in 1..(ny * nx) |-> self.xvecs[1][((m - 1) \div nx) + 1]]]

X1(self) ==
    LET nx == Len(self.xvecs[1])
        ny == Len(self.xvecs[2])
    IN  [shape |-> <<ny, nx>>,
         flat  |-> [m \in 1..(ny * nx) |-> self.xvecs[1][((m - 1) % nx) + 1]]]

X2(self) ==
    LET nx == Len(self.xvecs[1])
        ny == Len(self.xvecs[2])
    IN  [shape |-> <<ny, nx>>,
         flat  |-> [m \in 1..(ny * nx) |-> self.xvecs[2][((m - 1) \div nx) + 1]]]

\* mutant: the accumulator starts from the data of the previous update
AccumP(self) ==
    [shape |-> <<Len(self.xvecs[1]), Len(self.xvecs[2])>>,
     flat  |-> [m \in 1..(Len(self.xvecs[1]) * Len(self.xvecs[2])) |->
                  IF HasData(self) THEN <<self.data.flat[m][1], 0>> ELSE <<0, 0>>]]

\* p = np.zeros((len(xvecs[0]), len(xvecs[1])), dtype=complex)
ZerosP(self) ==
    [shape |-> <<Len(self.xvecs[1]), Len(self.xvecs[2])>>,
     flat  |-> [m \in 1..(Len(self.xvecs[1]) * Len(self.xvecs[2])) |-> <<0, 0>>]]

\* exp(-1j * theta * n), theta in quarter turns
Phase(theta, n) ==
    LET q == (theta * n) % 4
    IN  IF q = 0 THEN <<1, 0>>
        ELSE IF q = 1 THEN <<0, -1>>
        ELSE IF q = 2 THEN <<-1, 0>>
        ELSE <<0, 1>>

\* np.polyval(hermite(n), x): the physicists' Hermite polynomial
RECURSIVE Hermite(_, _)
Hermite(n, x) ==
    IF n = 0 THEN 1
    ELSE IF n = 1 THEN 2 * x
    ELSE 2 * x * Hermite(n - 1, x) - 2 * (n - 1) * Hermite(n - 2, x)

Kernel(theta, n, X) ==
    [shape |-> X.shape,
     flat  |-> [m \in DOMAIN X.flat |->
                  CMul(Phase(theta, n), <<Hermite(n, X.flat[m]), 0>>)]]

kn1(self, n1) == Kernel(self.theta1, n1, X1(self))

kn2(self, n2) == Kernel(self.theta2, n2, X2(self))

\* qutip.states.state_number_index(dims, state) for two modes
state_number_index(dims, state) == state[1] * dims[2] + state[2]

AmpIndex(N, n1, n2) == state_number_index(<<N, N>>, <<n1, n2>>)

\* kn1 * kn2 * rho.data[i, 0]
Term(self, rho, n1, n2, i) ==
    [shape |-> X1(self).shape,
     flat  |-> [m \in DOMAIN X1(self).flat |->
                  CMul(CMul(kn1(self, n1).flat[m], kn2(self, n2).flat[m]),
                       rho.amp[i + 1])]]

\* p += term
AddInto(p, term) ==
    [shape |-> p.shape, flat |-> [m \in DOMAIN p.flat |-> CAdd(p.flat[m], term.flat[m])]]

\* what one pass of the loop body raises
StepOutcome(self, rho, p, N, n1, n2) ==
    IF AmpIndex(N, n1, n2) >= Len(rho.amp) THEN "IndexError"
    ELSE IF X1(self).shape # p.shape THEN "ValueError"
    ELSE "none"

\* abs(p) ** 2
Abs2(p) == [shape |-> p.shape, flat |-> [m \in DOMAIN p.flat |-> CAbs2(p.flat[m])]]

\* mutant: the inner loop stops one short
InnerEndShort(N) == N - 1

\* the range(N) of the inner loop
InnerEnd(N) == N

NextPair(N, n1, n2) ==
    IF n2 + 1 < InnerEnd(N) THEN <<n1, n2 + 1>> ELSE <<n1 + 1, 0>>

IdleCur ==
    [rho |-> NoneState, N |-> 0, n1 |-> 0, n2 |-> 0,
     p |-> [shape |-> <<>>, flat |-> <<>>], ctor |-> FALSE]

(***************************************************************************)
(* Grids handed to Distribution(data, xvecs, xlabels) directly.            *)
(***************************************************************************)
Shapes == UNION {[1..r -> 1..MaxLen] : r \in 1..MaxRank} \cup {<<2, 3>>}

Patterns == {"const", "ramp", "example"}

Example == <<1, 5, 2, 4, 0, 3>>

SampleValue(pattern, m) ==
    IF pattern = "const" THEN <<3, 1>>
    ELSE IF pattern = "ramp" THEN <<(3 * m * m + m) % 7, 1>>
    ELSE <<Example[m], 1>>

SampleData(shape, pattern) ==
    [buf |-> 1, shape |-> shape,
     flat |-> [m \in 1..Prod(shape) |-> SampleValue(pattern, m)]]

AxisNames == <<"a1", "a2", "a3", "a4">>

SampleXvecs(shape) ==
    [q \in 1..Len(shape) |-> [t \in 1..shape[q] |-> 10 * q + t - 1]]

SampleXlabels(shape) == [q \in 1..Len(shape) |-> AxisNames[q]]

Dims == (-(MaxRank + 1))..MaxRank

(***************************************************************************)
(* State.                                                                  *)
(*   grid     the Distribution under test (NoObj before construction)      *)
(*   res      the Distribution the latest marginal/project returned        *)
(*   pc       "new" (nothing constructed), "idle", "loop" (inside          *)
(*            TwoModeQuadratureCorrelation.update) or "raised" (the latest *)
(*            call raised: the error propagates and the run ends)          *)
(*   cur      the locals of the running update: rho, N, n1, n2, p          *)
(*   visited  the <<n1, n2, i>> the running/latest update's loop has added *)
(*   err      what the latest call raised ("none": it returned)            *)
(*   last     the latest call: its name, receiver, arguments, and the      *)
(*            receiver before and after it                                 *)
(*   cfg      the arguments the grid was constructed with                  *)
(***************************************************************************)
NoCall ==
    [op |-> "none", target |-> "none", dim |-> 0, rho |-> NoneState,
     before |-> NoObj, after |-> NoObj]

NoCfg == [kind |-> "None", extent |-> <<>>, steps |-> 0, theta1 |-> -1, theta2 |-> -1]

Call(op, target, dim, rho, before, after) ==
    [op |-> op, target |-> target, dim |-> dim, rho |-> rho,
     before |-> before, after |-> after]

Init ==
    /\ grid = NoObj
    /\ res = NoObj
    /\ pc = "new"
    /\ cur = IdleCur
    /\ visited = <<>>
    /\ err = "none"
    /\ last = NoCall
    /\ cfg = NoCfg

Distribution_init ==
    /\ pc = "new"
    /\ \E shape \in Shapes, pattern \in Patterns :
          /\ pattern = "example" <=> shape = <<2, 3>>
          /\ grid' = Distribution(SampleData(shape, pattern), SampleXvecs(shape),
                                  SampleXlabels(shape))
          /\ cfg' = [NoCfg EXCEPT !.kind = "Distribution"]
    /\ pc' = "idle"
    /\ err' = "none"
    /\ last' = Call("init", "grid", 0, NoneState, NoObj, grid')
    /\ UNCHANGED <<res, cur, visited>>

\* WignerDistribution.update / QDistribution.update on a state
TransformUpdate(self, rho, buf) ==
    [self EXCEPT !.data =
        WithBuf(transform(self.kind, rho, self.xvecs[1], self.xvecs[2]), buf)]

WignerDistribution_init ==
    /\ pc = "new"
    /\ \E steps \in 2..MaxSteps, lo \in Lows, rho \in States \cup {NoneState} :
          LET self == WignerDistribution(Extent(lo, steps), steps)
          IN  /\ grid' = IF CallsUpdate(rho) THEN TransformUpdate(self, rho, 1) ELSE self
              /\ cfg' = [kind |-> "Wigner", extent |-> Extent(lo, steps),
                         steps |-> steps, theta1 |-> -1, theta2 |-> -1]
              /\ last' = Call("init", "grid", 0, rho, NoObj, grid')
    /\ pc' = "idle"
    /\ err' = "none"
    /\ UNCHANGED <<res, cur, visited>>

QDistribution_init ==
    /\ pc = "new"
    /\ \E steps \in 2..MaxSteps, lo \in Lows, rho \in States \cup {NoneState} :
          LET self == QDistribution(Extent(lo, steps), steps)
          IN  /\ grid' = IF CallsUpdate(rho) THEN TransformUpdate(self, rho, 1) ELSE self
              /\ cfg' = [kind |-> "Q", extent |-> Extent(lo, steps),
                         steps |-> steps, theta1 |-> -1, theta2 |-> -1]
              /\ last' = Call("init", "grid", 0, rho, NoObj, grid')
    /\ pc' = "idle"
    /\ err' = "none"
    /\ UNCHANGED <<res, cur, visited>>

\* update on WignerDistribution / QDistribution: the transform is called
\* unconditionally; what it does with an absent state is the transform's
\* business (it raises, or it returns an array)
Transform_update ==
    /\ pc = "idle"
    /\ grid.kind \in {"Wigner", "Q"}
    /\ \E rho \in States \cup {NoneState}, raises \in BOOLEAN :
          /\ raises => ~Truthy(rho)
          /\ grid' = IF raises THEN grid
                     ELSE TransformUpdate(grid, rho, FreshBuf({grid.data.buf}))
          /\ err' = IF raises THEN "TransformError" ELSE "none"
          /\ pc' = IF raises THEN "raised" ELSE "idle"
          /\ last' = Call("update", "grid", 0, rho, grid, grid')
    /\ res' = NoObj
    /\ UNCHANGED <<cur, visited, cfg>>

\* N = rho.dims[0][0]: None has no attribute dims
EntryOutcome(rho) == IF Truthy(rho) THEN "none" ELSE "AttributeError"

\* lines 266-269 of TwoModeQuadratureCorrelation.update
EnterLoop(self, rho, ctor) ==
    [rho |-> rho, N |-> rho.dims[1], n1 |-> 0, n2 |-> 0, p |-> ZerosP(self),
     ctor |-> ctor]

TwoModeQuadratureCorrelation_init ==
    /\ pc = "new"
    /\ \E steps \in 2..MaxSteps, lo \in Lows, th \in Thetas,
          rho \in States \cup {NoneState} :
          LET self == TwoModeQuadratureCorrelation(th[1], th[2], Extent(lo, steps), steps)
          IN  /\ grid' = self
              /\ cfg' = [kind |-> "TwoMode", extent |-> Extent(lo, steps),
                         steps |-> steps, theta1 |-> th[1], theta2 |-> th[2]]
              /\ last' = Call("init", "grid", 0, rho, NoObj, self)
              /\ IF CallsUpdate(rho)
                 THEN IF EntryOutcome(rho) = "none"
                      THEN pc' = "loop" /\ cur' = EnterLoop(self, rho, TRUE)
                      ELSE pc' = "raised" /\ cur' = IdleCur
                 ELSE pc' = "idle" /\ cur' = IdleCur
              /\ err' = IF CallsUpdate(rho) THEN EntryOutcome(rho) ELSE "none"
    /\ visited' = <<>>
    /\ UNCHANGED res

TwoMode_update ==
    /\ pc = "idle"
    /\ grid.kind = "TwoMode"
    /\ \E rho \in States \cup {NoneState} :
          /\ last' = Call("update", "grid", 0, rho, grid, grid)
          /\ IF EntryOutcome(rho) = "none"
             THEN pc' = "loop" /\ cur' = EnterLoop(grid, rho, FALSE)
             ELSE pc' = "raised" /\ cur' = IdleCur
          /\ err' = EntryOutcome(rho)
    /\ visited' = <<>>
    /\ res' = NoObj
    /\ UNCHANGED <<grid, cfg>>

\* one pass of the body of the inner loop (lines 271-281)
TwoMode_step ==
    /\ pc = "loop"
    /\ cur.n1 < cur.N
    /\ LET i       == AmpIndex(cur.N, cur.n1, cur.n2)
           outcome == StepOutcome(grid, cur.rho, cur.p, cur.N, cur.n1, cur.n2)
           nxt     == NextPair(cur.N, cur.n1, cur.n2)
       IN  IF outcome = "none"
           THEN /\ cur' = [cur EXCEPT
                             !.p = AddInto(cur.p, Term(grid, cur.rho, cur.n1, cur.n2, i)),
                             !.n1 = nxt[1], !.n2 = nxt[2]]
                /\ visited' = Append(visited, <<cur.n1, cur.n2, i>>)
                /\ UNCHANGED <<grid, pc, err, cfg>>
           ELSE /\ cur' = IdleCur
                /\ err' = outcome
                /\ pc' = "raised"
                /\ grid' = IF cur.ctor THEN NoObj ELSE grid
                /\ cfg' = IF cur.ctor THEN NoCfg ELSE cfg
                /\ UNCHANGED visited
    /\ UNCHANGED <<res, last>>

\* line 283: self.data = abs(p) ** 2
TwoMode_finish ==
    /\ pc = "loop"
    /\ cur.n1 >= cur.N
    /\ grid' = [grid EXCEPT !.data = WithBuf(Abs2(cur.p), FreshBuf({grid.data.buf}))]
    /\ last' = [last EXCEPT !.after = grid']
    /\ pc' = "idle"
    /\ cur' = IdleCur
    /\ UNCHANGED <<res, visited, err, cfg>>

Receiver(target) == IF target = "grid" THEN grid ELSE res

marginal_call ==
    /\ pc = "idle"
    /\ \E target \in {"grid", "res"}, dim \in Dims :
          LET self    == Receiver(target)
              outcome == ReduceOutcome(self, dim)
              after   == IF outcome = "none" THEN SelfAfterReduce(self, dim) ELSE self
          IN  /\ self.kind # "None"
              /\ target = "res" => ndim(self.data) >= 1
              /\ res' = IF outcome = "none"
                        THEN marginal(self, dim, FreshBuf(LiveBufs)) ELSE NoObj
              /\ grid' = IF target = "grid" THEN after ELSE grid
              /\ err' = outcome
              /\ pc' = IF outcome = "none" THEN "idle" ELSE "raised"
              /\ last' = Call("marginal", target, dim, NoneState, self, after)
    /\ UNCHANGED <<cur, visited, cfg>>

project_call ==
    /\ pc = "idle"
    /\ \E target \in {"grid", "res"}, dim \in Dims :
          LET self    == Receiver(target)
              outcome == ReduceOutcome(self, dim)
              after   == IF outcome = "none" THEN SelfAfterReduce(self, dim) ELSE self
          IN  /\ self.kind # "None"
              /\ target = "res" => ndim(self.data) >= 1
              /\ res' = IF outcome = "none"
                        THEN project(self, dim, FreshBuf(LiveBufs)) ELSE NoObj
              /\ grid' = IF target = "grid" THEN after ELSE grid
              /\ err' = outcome
              /\ pc' = IF outcome = "none" THEN "idle" ELSE "raised"
              /\ last' = Call("project", target, dim, NoneState, self, after)
    /\ UNCHANGED <<cur, visited, cfg>>

Next ==
    \/ TwoModeQuadratureCorrelation_init
    \/ WignerDistribution_init
    \/ QDistribution_init
    \/ Distribution_init
    \/ TwoMode_update
    \/ Transform_update
    \/ TwoMode_step
    \/ TwoMode_finish
    \/ marginal_call
    \/ project_call

Spec == Init /\ [][Next]_vars

(***************************************************************************)
(* Properties of marginal and project.                                     *)
(***************************************************************************)
Reductions == {"marginal", "project"}

\* the latest call was a marginal/project that returned: res is its result
\* and last.before the grid it was called on
ReduceDone == last.op \in Reductions /\ err = "none"

SourceRank == ndim(last.before.data)

ShapeOK(o) ==
    /\ Len(o.xvecs) = Len(o.xlabels)
    /\ Len(o.xvecs) = ndim(o.data)
    /\ \A q \in 1..ndim(o.data) : o.data.shape[q] = Len(o.xvecs[q])

\* C2: every grid whose data is set satisfies
\* len(xvecs) = len(xlabels) = data.ndim and data.shape[i] = len(xvecs[i]).
C2_ShapeInvariant ==
    /\ HasData(grid) => ShapeOK(grid)
    /\ HasData(res) => ShapeOK(res)

\* C5 as stated: on a grid of rank >= 1, marginal/project with an axis index
\* outside [0, rank) fail and return no grid.
C5_FailsOutsideZeroToRank ==
    (last.op \in Reductions /\ HasData(last.before) /\ SourceRank >= 1
        /\ ~(0 <= last.dim /\ last.dim < SourceRank)) =>
        (err # "none" /\ res = NoObj)

\* C5 amended: on a grid of rank >= 1, marginal/project with an axis index
\* outside [-rank, rank) fail with an axis error and return no grid, so
\* marginal(rank) fails; an index in [-rank, -1] counts from the last axis,
\* so marginal(-1) on a grid with an axis vector returns the grid reduced
\* over its last data axis.
C5_FailsOutsideMinusRankToRank ==
    (last.op \in Reductions /\ HasData(last.before) /\ SourceRank >= 1) =>
        /\ ~(-SourceRank <= last.dim /\ last.dim < SourceRank) =>
              (err = "AxisError" /\ pc = "raised" /\ res = NoObj)
        /\ (last.dim = -1 /\ Len(last.before.xvecs) >= 1) =>
              /\ err = "none"
              /\ res.data.shape = RemoveAt(last.before.data.shape, SourceRank)
              /\ res.xvecs = <<last.before.xvecs[Len(last.before.xvecs)]>>

C5_Witness ==
    /\ ReduceDone
    /\ last.op = "marginal"
    /\ SourceRank = 2
    /\ last.dim = -1
    /\ res.data.shape = <<last.before.data.shape[1]>>

\* multi-indices (0-based) of an array of the given shape
RECURSIVE UpperBound(_)
UpperBound(shape) ==
    IF shape = <<>> THEN 0
    ELSE IF shape[1] > UpperBound(Tail(shape)) THEN shape[1]
    ELSE UpperBound(Tail(shape))

Indices(shape) ==
    {idx \in [1..Len(shape) -> 0..(UpperBound(shape) - 1)] :
        \A q \in 1..Len(shape) : idx[q] < shape[q]}

RECURSIVE Offset(_, _)
Offset(shape, idx) ==
    IF shape = <<>> THEN 0
    ELSE idx[1] * Prod(Tail(shape)) + Offset(Tail(shape), Tail(idx))

At(a, idx) == a.flat[Offset(a.shape, idx) + 1]

\* idx with coordinate t inserted as axis k (0-based)
Insert(idx, k, t) == SubSeq(idx, 1, k) \o <<t>> \o SubSeq(idx, k + 1, Len(idx))

RECURSIVE SumAlong(_, _, _, _)
SumAlong(a, idx, k, t) ==
    IF t < 0 THEN <<0, 1>>
    ELSE RAdd(At(a, Insert(idx, k, t)), SumAlong(a, idx, k, t - 1))

RatSeq(ints) == [m \in 1..Len(ints) |-> <<ints[m], 1>>]

\* C6: project(k).data holds at each remaining coordinate the maximum of the
\* source data along axis k, marginal(k).data the sum along axis k divided by
\* the sample count; [[1,5,2],[4,0,3]] gives [4,5,3] and [2.5,2.5,2.5] over
\* axis 0; a constant grid has a constant marginal.
C6_MeanAndMax ==
    ReduceDone =>
        LET src == Arr(last.before.data)
            k   == IF last.dim < 0 THEN last.dim + SourceRank ELSE last.dim
            len == src.shape[k + 1]
        IN  /\ \A idx \in Indices(res.data.shape) :
                  IF last.op = "project"
                  THEN /\ \E t \in 0..(len - 1) :
                             At(res.data, idx) = At(src, Insert(idx, k, t))
                       /\ \A t \in 0..(len - 1) :
                             ~RLess(At(res.data, idx), At(src, Insert(idx, k, t)))
                  ELSE LET sum == SumAlong(src, idx, k, len - 1)
                       IN  At(res.data, idx)[1] * sum[2] * len
                               = sum[1] * At(res.data, idx)[2]
            /\ (src.shape = <<2, 3>> /\ src.flat = RatSeq(Example) /\ k = 0) =>
                  res.data.flat = IF last.op = "project"
                                  THEN RatSeq(<<4, 5, 3>>)
                                  ELSE <<<<5, 2>>, <<5, 2>>, <<5, 2>>>>
            /\ (last.op = "marginal" /\ \A m \in DOMAIN src.flat : src.flat[m] = <<3, 1>>) =>
                  \A m \in DOMAIN res.data.flat : res.data.flat[m] = <<3, 1>>

C6_Witness ==
    /\ ReduceDone
    /\ last.op = "marginal"
    /\ last.dim = 0
    /\ last.before.data.flat = RatSeq(Example)
    /\ res.data.flat = <<<<5, 2>>, <<5, 2>>, <<5, 2>>>>

\* C7: marginal and project leave the grid they are called on as it was
\* (data, axis vectors, axis labels), and the returned grid's data is a
\* freshly allocated buffer, not the receiver's.
C7_NoMutationNoAlias ==
    last.op \in Reductions =>
        /\ last.after = last.before
        /\ last.target = "grid" => grid = last.before
        /\ err = "none" =>
              /\ res.data.buf # 0
              /\ res.data.buf # last.before.data.buf
              /\ res.data.buf # grid.data.buf

C7_Witness ==
    /\ ReduceDone
    /\ last.target = "res"
    /\ HasData(grid)
    /\ grid.kind = "TwoMode"
    /\ ndim(res.data) = 0

(***************************************************************************)
(* Properties of update.                                                   *)
(***************************************************************************)
\* the latest call was a constructor given a state, or an update, of the
\* two-mode builder, and it has returned
TwoModeUpdated ==
    /\ pc = "idle"
    /\ grid.kind = "TwoMode"
    /\ last.op \in {"init", "update"}
    /\ Truthy(last.rho)
    /\ err = "none"

\* the sum of kn1 * kn2 * amplitude[i] over the loop passes vis, at position
\* m of the mesh
RECURSIVE SumOfTerms(_, _, _, _)
SumOfTerms(self, rho, vis, m) ==
    IF vis = <<>> THEN <<0, 0>>
    ELSE LET v == vis[Len(vis)]
         IN  CAdd(SumOfTerms(self, rho, SubSeq(vis, 1, Len(vis) - 1), m),
                  CMul(CMul(Kernel(self.theta1, v[1], X1(self)).flat[m],
                            Kernel(self.theta2, v[2], X2(self)).flat[m]),
                       rho.amp[v[3] + 1]))

\* C3: the update starts from a zero accumulator, visits every pair (n1, n2)
\* with 0 <= n1, n2 < N exactly once, adds kn1 * kn2 * amplitude[n1*N + n2]
\* for that pair, and finally sets data to the squared modulus of the sum.
C3_DoubleSum ==
    /\ pc = "loop" =>
          /\ \A m \in DOMAIN cur.p.flat :
                cur.p.flat[m] = SumOfTerms(grid, cur.rho, visited, m)
          /\ \A a, b \in 1..Len(visited) :
                (visited[a][1] = visited[b][1] /\ visited[a][2] = visited[b][2]) => a = b
          /\ \A a \in 1..Len(visited) :
                /\ visited[a][1] \in 0..(cur.N - 1)
                /\ visited[a][2] \in 0..(cur.N - 1)
                /\ visited[a][3] = visited[a][1] * cur.N + visited[a][2]
    /\ (TwoModeUpdated /\ Matched(last.rho)) =>
          LET N == last.rho.dims[1]
          IN  /\ Len(visited) = N * N
              /\ {<<visited[a][1], visited[a][2]>> : a \in 1..Len(visited)}
                    = (0..(N - 1)) \X (0..(N - 1))
              /\ {visited[a][3] : a \in 1..Len(visited)} = 0..(N * N - 1)
              /\ \A m \in DOMAIN grid.data.flat :
                    grid.data.flat[m] = CAbs2(SumOfTerms(grid, last.rho, visited, m))

C3_Witness ==
    /\ TwoModeUpdated
    /\ last.op = "update"
    /\ last.rho.dims = <<2, 2>>
    /\ last.rho.amp = Twisted(4)
    /\ grid.theta1 = 1
    /\ Len(visited) = 4

\* C4 as stated: update with an absent state raises nothing and leaves data
\* as it was, on each of the three builders.
C4_UpdateNoneIsNoOp ==
    (last.op = "update" /\ ~Truthy(last.rho)) =>
        (err = "none" /\ grid.data = last.before.data)

\* C4 amended: a builder constructed with an absent state raises nothing and
\* has no data; update does not test its argument: on the two-mode builder
\* update(None) raises (reading the state's dims) and leaves the builder,
\* its data included, as it was; on the other two builders the transform is
\* called with None and data is as it was exactly if that call raises.
C4_AbsentState ==
    /\ (last.op = "init" /\ ~Truthy(last.rho) /\ grid.kind \in {"Wigner", "Q", "TwoMode"}) =>
          (err = "none" /\ pc = "idle" /\ ~HasData(grid))
    /\ (last.op = "update" /\ ~Truthy(last.rho) /\ grid.kind = "TwoMode") =>
          (err = "AttributeError" /\ pc = "raised" /\ grid = last.before)
    /\ (last.op = "update" /\ ~Truthy(last.rho) /\ grid.kind \in {"Wigner", "Q"}) =>
          (err # "none" <=> grid.data = last.before.data)

C4_Witness ==
    /\ last.op = "update"
    /\ ~Truthy(last.rho)
    /\ grid.kind = "TwoMode"
    /\ HasData(grid)
    /\ err = "AttributeError"

\* what update(rho) on a freshly constructed builder of configuration c
\* leaves in data
FreshBuilder(c) ==
    IF c.kind = "Wigner" THEN WignerDistribution(c.extent, c.steps)
    ELSE IF c.kind = "Q" THEN QDistribution(c.extent, c.steps)
    ELSE TwoModeQuadratureCorrelation(c.theta1, c.theta2, c.extent, c.steps)

RECURSIVE RunLoop(_, _, _, _, _, _)
RunLoop(self, rho, N, p, n1, n2) ==
    IF n1 >= N THEN Abs2(p)
    ELSE LET nxt == NextPair(N, n1, n2)
         IN  RunLoop(self, rho, N,
                     AddInto(p, Term(self, rho, n1, n2, AmpIndex(N, n1, n2))),
                     nxt[1], nxt[2])

FreshUpdate(c, rho) ==
    IF c.kind = "TwoMode"
    THEN RunLoop(FreshBuilder(c), rho, rho.dims[1], ZerosP(FreshBuilder(c)), 0, 0)
    ELSE transform(c.kind, rho, FreshBuilder(c).xvecs[1], FreshBuilder(c).xvecs[2])

\* C8: after any sequence of updates with states, data is what one update
\* with the last state on a freshly constructed builder of the same
\* configuration produces, and the builder's axis vectors, axis labels,
\* theta1 and theta2 are those of its construction.
C8_FullRecompute ==
    /\ grid.kind \in {"Wigner", "Q", "TwoMode"} =>
          [grid EXCEPT !.data = NoData] = FreshBuilder(cfg)
    /\ (pc = "idle" /\ last.op = "update" /\ Truthy(last.rho) /\ err = "none") =>
          Arr(grid.data) = FreshUpdate(cfg, last.rho)

C8_Witness ==
    /\ pc = "idle"
    /\ last.op = "update"
    /\ err = "none"
    /\ grid.kind = "TwoMode"
    /\ Matched(last.rho)
    /\ HasData(last.before)
    /\ last.before.data.flat # grid.data.flat

\* C9: the two-mode update given a state whose two truncation sizes differ
\* is rejected with an error and leaves data unchanged.
C9_MismatchRejected ==
    (pc \in {"idle", "raised"} /\ last.op = "update" /\ cfg.kind = "TwoMode"
        /\ Truthy(last.rho) /\ ~Matched(last.rho)) =>
        (err # "none" /\ grid.data = last.before.data)

\* the density at the point (x1, x2): the squared modulus of the double sum
\* of the two kernels' values at x1 and x2 times the pair's amplitude
RECURSIVE PointSum(_, _, _, _, _)
PointSum(self, rho, x1, x2, i) ==
    IF i < 0 THEN <<0, 0>>
    ELSE LET N  == rho.dims[1]
             n1 == i \div N
             n2 == i % N
         IN  CAdd(PointSum(self, rho, x1, x2, i - 1),
                  CMul(CMul(CMul(Phase(self.theta1, n1), <<Hermite(n1, x1), 0>>),
                            CMul(Phase(self.theta2, n2), <<Hermite(n2, x2), 0>>)),
                       rho.amp[i + 1]))

Density(self, rho, x1, x2) ==
    CAbs2(PointSum(self, rho, x1, x2, rho.dims[1] * rho.dims[1] - 1))

\* C10 as stated: data[i][j] is the density at (xvecs[0][i], xvecs[1][j]).
C10_RowsAreFirstAxis ==
    (TwoModeUpdated /\ Matched(last.rho)) =>
        \A i \in 1..Len(grid.xvecs[1]), j \in 1..Len(grid.xvecs[2]) :
            At(grid.data, <<i - 1, j - 1>>)
                = Density(grid, last.rho, grid.xvecs[1][i], grid.xvecs[2][j])

\* C10 amended: data[j][i] is the density at (xvecs[0][i], xvecs[1][j]):
\* data's axis 0 runs over the second quadrature's coordinates and axis 1
\* over the first's.
C10_RowsAreSecondAxis ==
    (TwoModeUpdated /\ Matched(last.rho)) =>
        /\ grid.data.shape = <<Len(grid.xvecs[2]), Len(grid.xvecs[1])>>
        /\ \A i \in 1..Len(grid.xvecs[1]), j \in 1..Len(grid.xvecs[2]) :
              At(grid.data, <<j - 1, i - 1>>)
                  = Density(grid, last.rho, grid.xvecs[1][i], grid.xvecs[2][j])

C10_Witness ==
    /\ TwoModeUpdated
    /\ Matched(last.rho)
    /\ At(grid.data, <<0, 1>>) # At(grid.data, <<1, 0>>)
    /\ At(grid.data, <<1, 0>>)
          = Density(grid, last.rho, grid.xvecs[1][1], grid.xvecs[2][2])

====
